---- MODULE Spec2Model ----
(***************************************************************************)
(* Upload handlers FsStream / FsForm and the asynchronous video thumbnail  *)
(* derivation generateVideoThumbnail of server/handles (fsup).             *)
(*                                                                         *)
(* One upload request per element of Uploads.  A request runs its handler  *)
(* (begin .. storage write .. response); FsStream launches one goroutine   *)
(* generateVideoThumbnail for a video upload.  The storage layer (fs.Get,  *)
(* fs.PutDirectly, fs.PutAsTask, fs.MakeDir) is modelled at its interface. *)
(***************************************************************************)
EXTENDS Integers, Sequences, FiniteSets, TLC

-----------------------------------------------------------------------------
(* Bounds *)

\* The concurrent upload requests.
Uploads == {1, 2}

\* The names os.CreateTemp can draw from.
MaxTempNames == 2

TempNames == 1..MaxTempNames

-----------------------------------------------------------------------------
(* Paths.  A name is a sequence of tokens ("." is a token of its own), a   *)
(* path is a sequence of names.                                            *)

Dot == "."

SourceDir == << <<"d">> >>

SourcePaths ==
    { Append(SourceDir, <<"a", Dot, "mp4">>),
      Append(SourceDir, <<"a", Dot, "mkv">>) }

\* stdpath.Split: the directory part and the last element.
Split(path) == [dir |-> SubSeq(path, 1, Len(path) - 1), name |-> path[Len(path)]]

\* stdpath.Join(dir, elem)
Join(dir, elem) == Append(dir, elem)

\* stdpath.Ext: the suffix starting at the final dot of the name, or empty.
Ext(name) ==
    LET dots == {i \in 1..Len(name) : name[i] = Dot}
    IN  IF dots = {} THEN <<>>
        ELSE LET last == CHOOSE i \in dots : \A j \in dots : j <= i
             IN  SubSeq(name, last, Len(name))

\* strings.TrimSuffix
TrimSuffix(name, suffix) ==
    IF /\ Len(suffix) <= Len(name)
       /\ SubSeq(name, Len(name) - Len(suffix) + 1, Len(name)) = suffix
    THEN SubSeq(name, 1, Len(name) - Len(suffix))
    ELSE name

ThumbnailsName == <<Dot, "thumbnails">>

WebpExt == <<Dot, "webp">>

\* generateVideoThumbnail, "parse target path"
TargetThumbDir(filePath) == Join(Split(filePath).dir, ThumbnailsName)

TargetThumbNameKeepsExt(filePath) == Split(filePath).name \o WebpExt

TargetThumbName(filePath) ==
    LET name == Split(filePath).name
    IN  TrimSuffix(name, Ext(name)) \o WebpExt

TargetThumbPath(filePath) == Join(TargetThumbDir(filePath), TargetThumbName(filePath))

StoragePaths ==
    SourcePaths
      \cup {TargetThumbPath(p) : p \in SourcePaths}
      \cup {TargetThumbDir(p) : p \in SourcePaths}

NoPath == <<>>

-----------------------------------------------------------------------------
(* MIME types: <<type, subtype>>.                                          *)

MimeTypes == { <<"video", "mp4">>, <<"image", "png">> }

IsVideoAny(mimetype) == TRUE

\* strings.HasPrefix(mimetype, "video/")
IsVideo(mimetype) == mimetype[1] = "video"

-----------------------------------------------------------------------------
VARIABLES
    storage,   \* the virtual filesystem: StoragePaths -> object
    tmpfs,     \* os.TempDir(): TempNames -> the temporary file of that name
    req,       \* per upload: the request and its handler
    task,      \* per upload: the write task enqueued by fs.PutAsTask
    run,       \* per upload: the goroutine generateVideoThumbnail
    calc       \* one evaluation of the seek time formatting or of the
               \* thumbnail path of two names (idle in Spec)

vars == <<storage, tmpfs, req, task, run, calc>>

NoObj == [kind |-> "none", by |-> 0, content |-> "none"]

FileObj(u) == [kind |-> "file", by |-> u, content |-> "video"]

ThumbObj(u, c) == [kind |-> "thumb", by |-> u, content |-> c]

DirObj == [kind |-> "dir", by |-> 0, content |-> "none"]

\* A temporary file: the run that created it and what it holds.
NoTemp == [owner |-> 0, content |-> "absent"]

TempFile(u, c) == [owner |-> u, content |-> c]

\* context.Background() is 0; the context of request u is u.
Background == 0

\* ctx.Done(): the background context is never cancelled, a request's
\* context is cancelled on client disconnect and when the handler returns.
CtxDone(ctx) == ctx # Background /\ req[ctx].cancelled

-----------------------------------------------------------------------------
(* Storage interface *)

\* fs.Get: the object at path, or NotFound (os.ErrNotExist).
fsGet(path) ==
    IF storage[path].kind = "none"
    THEN [obj |-> NoObj, err |-> "NotExist"]
    ELSE [obj |-> storage[path], err |-> "nil"]

\* fs.PutDirectly / the write of an enqueued task
fsPut(path, obj) == [storage EXCEPT ![path] = obj]

\* fs.MakeDir: creates the directory, tolerating one that exists.
fsMakeDir(path) == [storage EXCEPT ![path] = DirObj]

checkFileExistsNever(path) == [exists |-> FALSE, err |-> "nil"]

\* checkFileExists
checkFileExists(path) ==
    LET got == fsGet(path)
    IN  IF got.err # "nil"
        THEN IF got.err = "NotExist"
             THEN [exists |-> FALSE, err |-> "nil"]
             ELSE [exists |-> FALSE, err |-> got.err]
        ELSE [exists |-> got.obj.kind # "none", err |-> "nil"]

-----------------------------------------------------------------------------
(* Initial state *)

ReqInit ==
    [pc |-> "idle", handler |-> "none", path |-> NoPath, overwrite |-> TRUE,
     asTask |-> FALSE, mimetype |-> <<"none", "none">>, resp |-> 0,
     hasTask |-> FALSE, putErr |-> FALSE, existed |-> FALSE,
     writes |-> 0, consumed |-> FALSE, drained |-> FALSE, closed |-> FALSE,
     cancelled |-> FALSE, launched |-> 0]

RunInit ==
    [pc |-> "none", ctx |-> Background, filePath |-> NoPath, temp |-> 0,
     hang |-> FALSE, killed |-> FALSE, coverErr |-> FALSE, probeErr |-> FALSE,
     pctErr |-> FALSE, validated |-> "no", handle |-> FALSE,
     outcome |-> "none", checked |-> "no",
     nCover |-> 0, nProbe |-> 0, nPct |-> 0, nMkdir |-> 0, nPut |-> 0]

CalcIdle == [op |-> "idle", pc |-> "done"]

ServerInit ==
    /\ storage = [p \in StoragePaths |-> NoObj]
    /\ tmpfs = [n \in TempNames |-> NoTemp]
    /\ req = [u \in Uploads |-> ReqInit]
    /\ task = [u \in Uploads |-> "none"]
    /\ run = [u \in Uploads |-> RunInit]

Init == ServerInit /\ calc = CalcIdle

-----------------------------------------------------------------------------
(* Upload handlers *)

\* The deferred function of both handlers (drain the body, close it), the
\* response, and the end of the request: net/http cancels the request's
\* context when the handler returns.
HandlerReturnNoDefer(r, code) ==
    [r EXCEPT !.pc = "done", !.resp = code, !.drained = (code = 200),
              !.closed = (code = 200), !.cancelled = TRUE]

HandlerReturn(r, code) ==
    [r EXCEPT !.pc = "done", !.resp = code, !.drained = TRUE, !.closed = TRUE,
              !.cancelled = TRUE]

OverwriteRefusedInverted(overwrite, res) == overwrite /\ res.obj.kind # "none"

\* if !overwrite { if res, _ := fs.Get(...); res != nil { 403 } }
OverwriteRefused(overwrite, res) == ~overwrite /\ res.obj.kind # "none"

DerivationContextRequest(u) == u

\* go generateVideoThumbnail(context.Background(), path, user)
DerivationContext(u) == Background

\* FsStream up to the storage write: headers, path resolution, overwrite check,
\* size, stream descriptor.
FsStreamBegin(u) ==
    /\ req[u].pc = "idle"
    /\ \E fail \in {"none", "unescape", "join", "size"}, path \in SourcePaths,
          overwrite \in BOOLEAN, asTask \in BOOLEAN, mimetype \in MimeTypes :
         LET r0 == [req[u] EXCEPT !.handler = "FsStream"]
             r1 == [r0 EXCEPT !.path = path, !.overwrite = overwrite,
                              !.existed = ~overwrite /\ fsGet(path).obj.kind # "none"]
         IN  req' = [req EXCEPT ![u] =
                 IF fail = "unescape" THEN HandlerReturn(r0, 400)
                 ELSE IF fail = "join" THEN HandlerReturn(r0, 403)
                 ELSE IF OverwriteRefused(overwrite, fsGet(path))
                      THEN HandlerReturn(r1, 403)
                 ELSE IF fail = "size" THEN HandlerReturn(r0, 400)
                 ELSE [r1 EXCEPT !.pc = "put", !.asTask = asTask,
                                 !.mimetype = mimetype]]
    /\ UNCHANGED <<storage, tmpfs, task, run, calc>>

\* FsForm up to the storage write.
FsFormBegin(u) ==
    /\ req[u].pc = "idle"
    /\ \E fail \in {"none", "unescape", "join", "storage", "noupload",
                    "formfile", "open"},
          path \in SourcePaths, overwrite \in BOOLEAN, asTask \in BOOLEAN,
          mimetype \in MimeTypes :
         LET r0 == [req[u] EXCEPT !.handler = "FsForm"]
             r1 == [r0 EXCEPT !.path = path, !.overwrite = overwrite,
                              !.existed = ~overwrite /\ fsGet(path).obj.kind # "none"]
         IN  req' = [req EXCEPT ![u] =
                 IF fail = "unescape" THEN HandlerReturn(r0, 400)
                 ELSE IF fail = "join" THEN HandlerReturn(r0, 403)
                 ELSE IF OverwriteRefused(overwrite, fsGet(path))
                      THEN HandlerReturn(r1, 403)
                 ELSE IF fail = "storage" THEN HandlerReturn(r0, 400)
                 ELSE IF fail = "noupload" THEN HandlerReturn(r0, 405)
                 ELSE IF fail \in {"formfile", "open"} THEN HandlerReturn(r0, 500)
                 ELSE [r1 EXCEPT !.pc = "put", !.asTask = asTask,
                                 !.mimetype = mimetype]]
    /\ UNCHANGED <<storage, tmpfs, task, run, calc>>

\* fs.PutAsTask enqueues the write, fs.PutDirectly performs it; either may
\* fail.  The reader is handed to the write.
HandlerPut(u, ok) ==
    /\ IF ok /\ req[u].asTask
       THEN task' = [task EXCEPT ![u] = "queued"] /\ UNCHANGED storage
       ELSE IF ok
       THEN storage' = fsPut(req[u].path, FileObj(u)) /\ UNCHANGED task
       ELSE UNCHANGED <<storage, task>>

AfterPut(r, ok) ==
    [r EXCEPT !.putErr = ~ok, !.writes = @ + 1, !.consumed = TRUE,
              !.hasTask = ok /\ r.asTask]

\* FsStream, the storage write and what follows its return: the error
\* response, or the success response, for a video after the launch of the
\* thumbnail goroutine.
FsStreamPut(u) ==
    /\ req[u].handler = "FsStream"
    /\ req[u].pc = "put"
    /\ \E ok \in BOOLEAN :
         /\ HandlerPut(u, ok)
         /\ LET r == AfterPut(req[u], ok)
            IN  IF ~ok
                THEN /\ req' = [req EXCEPT ![u] = HandlerReturn(r, 500)]
                     /\ UNCHANGED run
                ELSE IF IsVideo(r.mimetype)
                THEN /\ req' = [req EXCEPT ![u] =
                            HandlerReturn([r EXCEPT !.launched = @ + 1], 200)]
                     /\ run' = [run EXCEPT ![u] =
                            [@ EXCEPT !.pc = "Start", !.ctx = DerivationContext(u),
                                      !.filePath = r.path]]
                ELSE /\ req' = [req EXCEPT ![u] = HandlerReturn(r, 200)]
                     /\ UNCHANGED run
    /\ UNCHANGED <<tmpfs, calc>>

\* FsForm, the storage write and what follows its return: the error response
\* or the success response.
FsFormPut(u) ==
    /\ req[u].handler = "FsForm"
    /\ req[u].pc = "put"
    /\ \E ok \in BOOLEAN :
         /\ HandlerPut(u, ok)
         /\ req' = [req EXCEPT ![u] =
                HandlerReturn(AfterPut(@, ok), IF ok THEN 200 ELSE 500)]
    /\ UNCHANGED <<tmpfs, run, calc>>

\* The client disconnects while the handler runs: the request's context is
\* cancelled.
CancelRequest(u) ==
    /\ req[u].pc = "put"
    /\ ~req[u].cancelled
    /\ req' = [req EXCEPT ![u].cancelled = TRUE]
    /\ UNCHANGED <<storage, tmpfs, task, run, calc>>

\* The write task enqueued by fs.PutAsTask runs: it writes the object or fails.
TaskRun(u) ==
    /\ task[u] = "queued"
    /\ \E ok \in BOOLEAN :
         IF ok
         THEN /\ storage' = fsPut(req[u].path, FileObj(u))
              /\ task' = [task EXCEPT ![u] = "done"]
         ELSE /\ task' = [task EXCEPT ![u] = "failed"]
              /\ UNCHANGED storage
    /\ UNCHANGED <<tmpfs, req, run, calc>>

-----------------------------------------------------------------------------
(* generateVideoThumbnail *)

\* Results of an ffmpeg run that exits by itself: exit status and what it
\* left in the output file.
ToolResults ==
    [exit0 : {TRUE}, content : {"empty", "garbage", "webp"}]
      \cup [exit0 : {FALSE}, content : {"empty", "garbage"}]

\* exec.CommandContext kills the process when its context is done.
KilledResult == [exit0 |-> FALSE, content |-> "empty"]

DeferRemoveNone(fs, name) == fs

\* defer os.Remove(tempFilePath)
DeferRemove(fs, name) == [fs EXCEPT ![name] = NoTemp]

\* A return of generateVideoThumbnail: the deferred calls run in reverse
\* order, tempFileReader.Close() and then os.Remove(tempFilePath).
RunReturn(u, r, outcome) ==
    /\ run' = [run EXCEPT ![u] =
           [r EXCEPT !.pc = "Done", !.outcome = outcome, !.handle = FALSE,
                     !.temp = 0]]
    /\ tmpfs' = IF r.temp # 0 THEN DeferRemove(tmpfs, r.temp) ELSE tmpfs

\* validateWebPFile: open, size > 0, image.Decode
validateWebPFile(file) ==
    IF file.content = "absent" THEN "open"
    ELSE IF file.content = "empty" THEN "empty"
    ELSE IF file.content # "webp" THEN "decode"
    ELSE "nil"

ValidatedGateOpen(err) == TRUE

\* if err := validateWebPFile(tempFilePath); err != nil { return }
ValidatedGate(err) == err = "nil"

CoverFailedAlways(res) == TRUE

\* extractVideoCover: err of cmd.CombinedOutput(), a non-zero exit
CoverFailed(res) == ~res.exit0

PublishTargetSource(filePath) == filePath

\* fs.PutDirectly(ctx, targetThumbDir, uploadStream{Name: targetThumbName})
PublishTarget(filePath) == Join(TargetThumbDir(filePath), TargetThumbName(filePath))

PublishOutcomeAlways(ok) == "published"

\* if err := fs.PutDirectly(...); err != nil { return }
PublishOutcome(ok) == IF ok THEN "published" ELSE "publish_failed"

\* Start: fs.Get of the source object and its absolute path.
RunStart(u) ==
    /\ run[u].pc = "Start"
    /\ LET got == fsGet(run[u].filePath)
       IN  IF got.err # "nil"
           THEN RunReturn(u, run[u], "source_lookup_failed")
           ELSE \E absOk \in BOOLEAN :
                  IF absOk
                  THEN /\ run' = [run EXCEPT ![u].pc = "ExistenceCheck"]
                       /\ UNCHANGED tmpfs
                  ELSE RunReturn(u, run[u], "empty_path")
    /\ UNCHANGED <<storage, req, task, calc>>

\* ExistenceCheck: checkFileExists(ctx, targetThumbPath)
RunExistenceCheck(u) ==
    /\ run[u].pc = "ExistenceCheck"
    /\ LET res == checkFileExists(TargetThumbPath(run[u].filePath))
       IN  IF res.err # "nil"
           THEN RunReturn(u, run[u], "check_failed")
           ELSE IF res.exists
           THEN RunReturn(u, [run[u] EXCEPT !.checked = "exists"], "skipped")
           ELSE /\ run' = [run EXCEPT ![u] =
                       [@ EXCEPT !.pc = "Staging", !.checked = "absent"]]
                /\ UNCHANGED tmpfs
    /\ UNCHANGED <<storage, req, task, calc>>

CreateTempNamesAny(fs) == TempNames

\* os.CreateTemp opens with O_EXCL: the names it can return are those no
\* existing file has.
CreateTempNames(fs) == {m \in TempNames : fs[m] = NoTemp}

\* Staging: os.CreateTemp(os.TempDir(), "video_thumb_*.webp") creates a file
\* under a name no existing file has.
RunStaging(u) ==
    /\ run[u].pc = "Staging"
    /\ \E ok \in BOOLEAN :
         IF ok
         THEN \E n \in CreateTempNames(tmpfs) :
                /\ tmpfs' = [tmpfs EXCEPT ![n] = TempFile(u, "empty")]
                /\ run' = [run EXCEPT ![u] =
                       [@ EXCEPT !.pc = "Extracting", !.temp = n]]
         ELSE RunReturn(u, run[u], "temp_failed")
    /\ UNCHANGED <<storage, req, task, calc>>

\* The result of a subprocess that was started: killed if its context is
\* done, else (if it does not hang) any result of its own.
ToolExits(u) == ~run[u].hang \/ CtxDone(run[u].ctx)

ToolResultSet(u) ==
    IF CtxDone(run[u].ctx) THEN {KilledResult} ELSE ToolResults

\* extractVideoCover: ffmpeg is started.
extractVideoCoverStart(u) ==
    /\ run[u].pc = "Extracting"
    /\ \E hang \in BOOLEAN :
         run' = [run EXCEPT ![u] =
             [@ EXCEPT !.pc = "CoverRunning", !.hang = hang, !.nCover = @ + 1]]
    /\ UNCHANGED <<storage, tmpfs, req, task, calc>>

\* extractVideoCover: cmd.CombinedOutput() returns.
extractVideoCoverExit(u) ==
    /\ run[u].pc = "CoverRunning"
    /\ ToolExits(u)
    /\ \E res \in ToolResultSet(u) :
         /\ tmpfs' = [tmpfs EXCEPT ![run[u].temp] = TempFile(u, res.content)]
         /\ run' = [run EXCEPT ![u] =
                [@ EXCEPT !.pc = IF CoverFailed(res) THEN "Probing" ELSE "Validating",
                          !.coverErr = ~res.exit0, !.hang = FALSE,
                          !.killed = @ \/ CtxDone(run[u].ctx)]]
    /\ UNCHANGED <<storage, req, task, calc>>

\* getVideoDuration: ffprobe is started.
getVideoDurationStart(u) ==
    /\ run[u].pc = "Probing"
    /\ \E hang \in BOOLEAN :
         run' = [run EXCEPT ![u] =
             [@ EXCEPT !.pc = "ProbeRunning", !.hang = hang, !.nProbe = @ + 1]]
    /\ UNCHANGED <<storage, tmpfs, req, task, calc>>

\* getVideoDuration: cmd.Output() returns and the duration is parsed; on an
\* error extractVideoFrameAtPercentage fails and the run returns.
getVideoDurationExit(u) ==
    /\ run[u].pc = "ProbeRunning"
    /\ ToolExits(u)
    /\ \E probed \in IF CtxDone(run[u].ctx) THEN {"exit"}
                     ELSE {"nil", "exit", "parse"} :
         LET r == [run[u] EXCEPT !.hang = FALSE, !.probeErr = (probed # "nil"),
                                 !.killed = @ \/ CtxDone(run[u].ctx)]
         IN  IF probed = "nil"
             THEN /\ run' = [run EXCEPT ![u] = [r EXCEPT !.pc = "Seeking"]]
                  /\ UNCHANGED tmpfs
             ELSE RunReturn(u, r, "extraction_failed")
    /\ UNCHANGED <<storage, req, task, calc>>

\* extractVideoFrameAtPercentage: ffmpeg -ss is started.
extractVideoFrameStart(u) ==
    /\ run[u].pc = "Seeking"
    /\ \E hang \in BOOLEAN :
         run' = [run EXCEPT ![u] =
             [@ EXCEPT !.pc = "FrameRunning", !.hang = hang, !.nPct = @ + 1]]
    /\ UNCHANGED <<storage, tmpfs, req, task, calc>>

\* extractVideoFrameAtPercentage: cmd.CombinedOutput() returns.
extractVideoFrameExit(u) ==
    /\ run[u].pc = "FrameRunning"
    /\ ToolExits(u)
    /\ \E res \in ToolResultSet(u) :
         LET r == [run[u] EXCEPT !.hang = FALSE, !.pctErr = ~res.exit0,
                                 !.killed = @ \/ CtxDone(run[u].ctx)]
             fs == [tmpfs EXCEPT ![r.temp] = TempFile(u, res.content)]
         IN  IF res.exit0
             THEN /\ run' = [run EXCEPT ![u] = [r EXCEPT !.pc = "Validating"]]
                  /\ tmpfs' = fs
             ELSE /\ run' = [run EXCEPT ![u] =
                         [r EXCEPT !.pc = "Done", !.outcome = "extraction_failed",
                                   !.temp = 0]]
                  /\ tmpfs' = DeferRemove(fs, r.temp)
    /\ UNCHANGED <<storage, req, task, calc>>

\* Validating: validateWebPFile(tempFilePath)
RunValidate(u) ==
    /\ run[u].pc = "Validating"
    /\ LET err == validateWebPFile(tmpfs[run[u].temp])
           r == [run[u] EXCEPT !.validated = IF err = "nil" THEN "ok" ELSE "failed"]
       IN  IF ValidatedGate(err)
           THEN /\ run' = [run EXCEPT ![u] = [r EXCEPT !.pc = "Publishing"]]
                /\ UNCHANGED tmpfs
           ELSE RunReturn(u, r, "validation_failed")
    /\ UNCHANGED <<storage, req, task, calc>>

MakeDirFailedIgnored(mkOk) == FALSE

\* if err := MakeDir(ctx, targetThumbDir, true); err != nil { return }
MakeDirFailed(mkOk) == ~mkOk

\* Publishing: MakeDir(ctx, targetThumbDir, true), then os.Open(tempFilePath)
RunMakeDir(u) ==
    /\ run[u].pc = "Publishing"
    /\ \E mkOk \in BOOLEAN, openOk \in BOOLEAN :
         LET r == [run[u] EXCEPT !.nMkdir = @ + 1]
         IN  /\ storage' = IF mkOk THEN fsMakeDir(TargetThumbDir(r.filePath)) ELSE storage
             /\ IF MakeDirFailed(mkOk)
                THEN RunReturn(u, r, "mkdir_failed")
                ELSE IF openOk
                THEN /\ run' = [run EXCEPT ![u] =
                            [r EXCEPT !.pc = "Put", !.handle = TRUE]]
                     /\ UNCHANGED tmpfs
                ELSE RunReturn(u, r, "open_failed")
    /\ UNCHANGED <<req, task, calc>>

\* Publishing: fs.PutDirectly of the staged file, then the return.
RunPublish(u) ==
    /\ run[u].pc = "Put"
    /\ \E ok \in BOOLEAN :
         /\ storage' = IF ok
                       THEN fsPut(PublishTarget(run[u].filePath),
                                  ThumbObj(u, tmpfs[run[u].temp].content))
                       ELSE storage
         /\ RunReturn(u, [run[u] EXCEPT !.nPut = @ + 1], PublishOutcome(ok))
    /\ UNCHANGED <<req, task, calc>>

-----------------------------------------------------------------------------
(* Specification *)

Next ==
    \E u \in Uploads :
        \/ FsStreamBegin(u)
        \/ FsStreamPut(u)
        \/ FsFormBegin(u)
        \/ FsFormPut(u)
        \/ CancelRequest(u)
        \/ TaskRun(u)
        \/ RunStart(u)
        \/ RunExistenceCheck(u)
        \/ RunStaging(u)
        \/ extractVideoCoverStart(u)
        \/ extractVideoCoverExit(u)
        \/ getVideoDurationStart(u)
        \/ getVideoDurationExit(u)
        \/ extractVideoFrameStart(u)
        \/ extractVideoFrameExit(u)
        \/ RunValidate(u)
        \/ RunMakeDir(u)
        \/ RunPublish(u)

Spec == Init /\ [][Next]_vars

HandlerStep(u) == FsStreamBegin(u) \/ FsStreamPut(u) \/ FsFormBegin(u) \/ FsFormPut(u)

RunStep(u) ==
    \/ RunStart(u)
    \/ RunExistenceCheck(u)
    \/ RunStaging(u)
    \/ extractVideoCoverStart(u)
    \/ extractVideoCoverExit(u)
    \/ getVideoDurationStart(u)
    \/ getVideoDurationExit(u)
    \/ extractVideoFrameStart(u)
    \/ extractVideoFrameExit(u)
    \/ RunValidate(u)
    \/ RunMakeDir(u)
    \/ RunPublish(u)

\* The Go scheduler runs every goroutine that can take a step: each handler,
\* each write task and each thumbnail goroutine is scheduled fairly.  A
\* subprocess that hangs gives its goroutine no step until its context is done.
FairSpec ==
    /\ Spec
    /\ \A u \in Uploads :
         WF_vars(HandlerStep(u)) /\ WF_vars(TaskRun(u)) /\ WF_vars(RunStep(u))

-----------------------------------------------------------------------------
(* Seek time of the second attempt: extractVideoFrameAtPercentage, formatTime *)

\* A float64 number of seconds, kept in steps of a tenth of a millisecond.
Seconds(n) == n * 10000

\* Durations ffprobe can report: around the hour, minute, second and
\* millisecond boundaries, none of them exactly half a millisecond.
Durations ==
    {Seconds(3600 * h + 60 * m + s) + f :
        h \in {0, 1}, m \in {0, 2, 59}, s \in {0, 5, 59},
        f \in {0, 4, 6, 5000, 9994, 9996}} \cup {Seconds(100), Seconds(1999) + 9867}

Percentages == {0, 3, 100}

\* seekTime := duration * (percentage / 100.0)
SeekTime(duration, percentage) ==
    (duration \div 100) * percentage + ((duration % 100) * percentage) \div 100

Digits == <<"0", "1", "2", "3", "4", "5", "6", "7", "8", "9">>

RECURSIVE Dec(_)
\* %d of a non-negative integer
Dec(n) == IF n < 10 THEN <<Digits[n + 1]>> ELSE Append(Dec(n \div 10), Digits[(n % 10) + 1])

RECURSIVE Pad(_, _)
\* the zero flag of a Sprintf verb: pad on the left up to the width, never cut
Pad(str, width) == IF Len(str) >= width THEN str ELSE Pad(<<"0">> \o str, width)

\* %02d
FmtInt2(n) == Pad(Dec(n), 2)

\* %06.3f: rounded to three decimals, the whole at least six characters wide
FmtFloat63(s) ==
    LET ms == (s + 5) \div 10
    IN  Pad(Dec(ms \div 1000) \o <<".">> \o Pad(Dec(ms % 1000), 3), 6)

formatTimeKeepsMinutes(seconds) ==
    LET h == seconds \div Seconds(3600)
        remainingSeconds == seconds - h * Seconds(3600)
        m == remainingSeconds \div Seconds(60)
    IN  FmtInt2(h) \o <<":">> \o FmtInt2(m) \o <<":">> \o FmtFloat63(remainingSeconds)

formatTime(seconds) ==
    LET h == seconds \div Seconds(3600)
        remainingSeconds == seconds - h * Seconds(3600)
        m == remainingSeconds \div Seconds(60)
        s == remainingSeconds - m * Seconds(60)
    IN  FmtInt2(h) \o <<":">> \o FmtInt2(m) \o <<":">> \o FmtFloat63(s)

TimeInit ==
    /\ ServerInit
    /\ calc \in {[op |-> "time", pc |-> "input", duration |-> d, percentage |-> p,
                  seekTime |-> 0, seekTimeStr |-> <<>>] :
                     d \in Durations, p \in Percentages}

ComputeSeekTime ==
    /\ calc.op = "time" /\ calc.pc = "input"
    /\ calc' = [calc EXCEPT !.pc = "seek",
                            !.seekTime = SeekTime(calc.duration, calc.percentage)]
    /\ UNCHANGED <<storage, tmpfs, req, task, run>>

FormatSeekTime ==
    /\ calc.op = "time" /\ calc.pc = "seek"
    /\ calc' = [calc EXCEPT !.pc = "done", !.seekTimeStr = formatTime(calc.seekTime)]
    /\ UNCHANGED <<storage, tmpfs, req, task, run>>

TimeNext == ComputeSeekTime \/ FormatSeekTime

TimeSpec == TimeInit /\ [][TimeNext]_vars

-----------------------------------------------------------------------------
(* Thumbnail paths of two source files: generateVideoThumbnail, "parse     *)
(* target path" and the existence check                                    *)

MaxNameLen == 3

NameTokens == {"a", Dot, "mp4", "mkv"}

\* File names of at most MaxNameLen tokens.
Names == UNION {[1..n -> NameTokens] : n \in 1..MaxNameLen}

OtherDir == << <<"e">> >>

PathInit ==
    /\ ServerInit
    /\ calc \in {[op |-> "path", pc |-> "input",
                  a |-> Append(SourceDir, x), b |-> Append(dir, y),
                  thumbA |-> NoPath, thumbB |-> NoPath,
                  published |-> {}, skipped |-> FALSE] :
                     x \in Names, y \in Names, dir \in {SourceDir, OtherDir}}

\* The run for the first file derives its target path and publishes there.
DeriveFirst ==
    /\ calc.op = "path" /\ calc.pc = "input"
    /\ LET targetThumbPath == TargetThumbPath(calc.a)
       IN  calc' = [calc EXCEPT !.pc = "first", !.thumbA = targetThumbPath,
                                !.published = {targetThumbPath}]
    /\ UNCHANGED <<storage, tmpfs, req, task, run>>

\* The run for the second file derives its target path and checks whether an
\* object exists there.
DeriveSecond ==
    /\ calc.op = "path" /\ calc.pc = "first"
    /\ LET targetThumbPath == TargetThumbPath(calc.b)
       IN  calc' = [calc EXCEPT !.pc = "done", !.thumbB = targetThumbPath,
                                !.skipped = targetThumbPath \in calc.published]
    /\ UNCHANGED <<storage, tmpfs, req, task, run>>

PathNext == DeriveFirst \/ DeriveSecond

PathSpec == PathInit /\ [][PathNext]_vars

-----------------------------------------------------------------------------
(* Properties *)

DerivedPath(u) == TargetThumbPath(run[u].filePath)

Launched(u) == run[u].pc # "none"

\* Outcomes of a run that created its staged file.
StagedOutcomes ==
    {"extraction_failed", "validation_failed", "mkdir_failed", "open_failed",
     "publish_failed", "published"}

\* Outcomes of a run that found no thumbnail and published none.
FailureOutcomes ==
    {"temp_failed", "extraction_failed", "validation_failed", "mkdir_failed",
     "open_failed", "publish_failed"}

\* C1: a run writes its thumbnail to storage only after validateWebPFile
\* returned success for its staged file; every thumbnail in storage is a
\* validated image.
C1_PublishOnlyValidated ==
    /\ \A u \in Uploads :
         (run[u].pc = "Put" \/ run[u].nPut > 0) => run[u].validated = "ok"
    /\ \A p \in StoragePaths :
         storage[p].kind = "thumb" =>
            /\ storage[p].content = "webp"
            /\ run[storage[p].by].validated = "ok"

C1_Witness ==
    \E u \in Uploads :
        /\ run[u].outcome = "published"
        /\ run[u].nPut = 1
        /\ storage[DerivedPath(u)] = ThumbObj(u, "webp")

\* C2: once a run that created its staged file is Done, that file no longer
\* exists, whatever the exit path.
C2_StagedRemovedAtDone ==
    \A u \in Uploads :
        run[u].pc = "Done" => \A n \in TempNames : tmpfs[n].owner # u

C2_Witness ==
    \E u \in Uploads, v \in Uploads :
        /\ run[u].outcome = "published"
        /\ run[v].outcome \in StagedOutcomes \ {"published"}
        /\ \A n \in TempNames : tmpfs[n] = NoTemp

\* C3: the existence check of a run that finds an object at the derived path
\* ends the run at once: no staged file, no external tool, no directory, no
\* storage write, storage unchanged.
C3_ExistingThumbnailSkips ==
    [][\A u \in Uploads :
         ( /\ run[u].pc = "ExistenceCheck"
           /\ run'[u] # run[u]
           /\ storage[DerivedPath(u)].kind # "none" )
         => /\ run'[u].pc = "Done"
            /\ run'[u].outcome = "skipped"
            /\ run'[u].temp = 0
            /\ run'[u].nCover = 0 /\ run'[u].nProbe = 0 /\ run'[u].nPct = 0
            /\ run'[u].nMkdir = 0 /\ run'[u].nPut = 0
            /\ storage' = storage
            /\ tmpfs' = tmpfs]_vars

C3_Witness ==
    \E u \in Uploads, v \in Uploads :
        /\ run[u].outcome = "published"
        /\ run[v].outcome = "skipped"
        /\ run[v].filePath = run[u].filePath
        /\ storage[DerivedPath(v)] = ThumbObj(u, "webp")

\* C4 as stated: after a run that found no thumbnail has completed, an object
\* exists at the derived path unless both extraction attempts failed.
C4_Original ==
    \A u \in Uploads :
        (run[u].pc = "Done" /\ run[u].checked = "absent") =>
            \/ storage[DerivedPath(u)].kind # "none"
            \/ run[u].outcome = "extraction_failed"

\* C4 amended: after a run that found no thumbnail has completed, an object
\* exists at the derived path if the run's write succeeded; the run has left
\* an object there only if its write succeeded, and when none exists the run
\* ended in one of its failure exits (temporary file, extraction, validation,
\* directory, open, write).
C4_PublishedOrFailed ==
    \A u \in Uploads :
        (run[u].pc = "Done" /\ run[u].checked = "absent") =>
            /\ run[u].outcome = "published" =>
                   storage[DerivedPath(u)].kind = "thumb"
            /\ storage[DerivedPath(u)].kind = "none" =>
                   run[u].outcome \in FailureOutcomes
            /\ (\E p \in StoragePaths : storage[p] = ThumbObj(u, storage[p].content))
                   => run[u].outcome = "published"

C4_Witness ==
    \E u \in Uploads :
        /\ run[u].pc = "Done"
        /\ run[u].checked = "absent"
        /\ run[u].outcome = "validation_failed"
        /\ storage[DerivedPath(u)].kind = "none"

\* C5: an upload of a video whose write succeeded has triggered the
\* derivation, through FsStream and through FsForm alike.
C5_BothTransportsTrigger ==
    \A u \in Uploads :
        ( /\ req[u].pc = "done"
          /\ req[u].handler \in {"FsStream", "FsForm"}
          /\ req[u].writes = 1
          /\ ~req[u].putErr
          /\ IsVideo(req[u].mimetype) )
        => (req[u].launched = 1 /\ Launched(u))

C7_ResponseIndependent ==
    \A u \in Uploads :
        req[u].launched = 1 =>
            /\ req[u].resp = 200
            /\ req[u].hasTask = req[u].asTask
            /\ (~req[u].asTask \/ task[u] = "done")
                   => storage[req[u].path].kind = "file"

C7_Witness ==
    \E u \in Uploads, v \in Uploads :
        /\ run[u].outcome = "validation_failed"
        /\ run[v].outcome = "published"
        /\ req[u].resp = 200 /\ req[v].resp = 200
        /\ storage[req[u].path].kind = "file"

\* C8: the context of a launched derivation is the background context: no
\* cancellation of the request's context (client disconnect, return of the
\* handler) makes it done, and no tool invocation of the run is killed.
C8_DetachedContext ==
    \A u \in Uploads :
        Launched(u) =>
            /\ run[u].ctx = Background
            /\ ~CtxDone(run[u].ctx)
            /\ ~run[u].killed

C8_Witness ==
    \E u \in Uploads :
        /\ req[u].cancelled
        /\ run[u].pc = "FrameRunning"
        /\ run[u].nCover = 1 /\ run[u].nProbe = 1

\* C9: when attempt 1 fails, by a non-zero exit or by an exit that produced
\* no output, attempt 2 (the duration probe) is run next.
C9_FallbackOnFailure ==
    [][\A u \in Uploads :
         ( /\ run[u].pc = "CoverRunning"
           /\ run'[u].pc # "CoverRunning"
           /\ (run'[u].coverErr \/ tmpfs'[run[u].temp].content = "empty") )
         => run'[u].pc = "Probing"]_vars

\* C10: every launched derivation eventually reaches Done.
C10_EventuallyDone ==
    \A u \in Uploads : Launched(u) ~> (run[u].pc = "Done")

\* C11: of two runs for the same source path neither waits on the other (a
\* run that is not inside a hanging subprocess always has a step), each
\* works on a staged file of its own, and once both are Done the derived
\* path holds nothing or one validated thumbnail written by one of the two.
C11_ConcurrentSameSource ==
    \A u \in Uploads, v \in Uploads :
        (u # v /\ Launched(u) /\ Launched(v) /\ run[u].filePath = run[v].filePath) =>
            /\ (run[u].pc # "Done" /\ ~run[u].hang) => ENABLED RunStep(u)
            /\ run[u].temp # 0 =>
                   /\ tmpfs[run[u].temp].owner = u
                   /\ run[u].temp # run[v].temp
            /\ \A n \in TempNames : tmpfs[n].owner = u => run[u].temp = n
            /\ (run[u].pc = "Done" /\ run[v].pc = "Done") =>
                   /\ storage[DerivedPath(u)] \in
                          {NoObj, ThumbObj(u, "webp"), ThumbObj(v, "webp")}
                   /\ \A n \in TempNames : tmpfs[n] = NoTemp

C11_Witness ==
    \E u \in Uploads, v \in Uploads :
        /\ u # v
        /\ run[u].filePath = run[v].filePath
        /\ run[u].outcome = "published"
        /\ run[v].outcome = "published"
        /\ run[u].checked = "absent" /\ run[v].checked = "absent"
        /\ storage[DerivedPath(u)] = ThumbObj(v, "webp")

\* C12: every return of FsStream and FsForm, early error returns and the
\* success return alike, has drained and closed the request body; the body is
\* closed only by the return, after which the handler calls nothing: a
\* storage write call of the handler has returned before the body is closed.
C12_BodyDrainedAndClosed ==
    [][\A u \in Uploads :
         /\ req'[u].pc = "done" => (req'[u].drained /\ req'[u].closed)
         /\ req'[u].closed => req'[u].pc = "done"
         /\ req[u].closed => req'[u] = req[u]
         /\ (req'[u].writes # req[u].writes) => ~req[u].closed]_vars

C12_Witness ==
    \E u \in Uploads, v \in Uploads :
        /\ req[u].pc = "done" /\ req[u].resp = 403 /\ req[u].writes = 0
        /\ req[u].drained /\ req[u].closed
        /\ req[v].pc = "done" /\ req[v].handler = "FsForm" /\ req[v].writes = 1
        /\ req[v].drained /\ req[v].closed

DigitValue(c) == CHOOSE n \in 0..9 : Digits[n + 1] = c

\* C13 as stated: 3725.5 seconds at 0% formats as 01:02:05.000, and 3% of
\* 100 seconds is 3.0 seconds and formats as 00:00:03.000.
C13_Original ==
    calc.op = "time" /\ calc.pc = "done" =>
        /\ (calc.duration = Seconds(3725) + 5000 /\ calc.percentage = 0) =>
               calc.seekTimeStr = <<"0", "1", ":", "0", "2", ":", "0", "5", ".", "0", "0", "0">>
        /\ (calc.duration = Seconds(100) /\ calc.percentage = 3) =>
               /\ calc.seekTime = Seconds(3)
               /\ calc.seekTimeStr = <<"0", "0", ":", "0", "0", ":", "0", "3", ".", "0", "0", "0">>

\* C13: a seek time of 3725.5 seconds (the whole of a 3725.5-second duration)
\* formats as 01:02:05.500; at 0% of that duration the seek time is 0 and
\* formats as 00:00:00.000; 3% of 100 seconds is 3.0 seconds and formats as
\* 00:00:03.000.
C13_SeekTimeFormats ==
    calc.op = "time" /\ calc.pc = "done" =>
        /\ (calc.duration = Seconds(3725) + 5000 /\ calc.percentage = 100) =>
               /\ calc.seekTime = Seconds(3725) + 5000
               /\ calc.seekTimeStr = <<"0", "1", ":", "0", "2", ":", "0", "5", ".", "5", "0", "0">>
        /\ (calc.duration = Seconds(3725) + 5000 /\ calc.percentage = 0) =>
               /\ calc.seekTime = 0
               /\ calc.seekTimeStr = <<"0", "0", ":", "0", "0", ":", "0", "0", ".", "0", "0", "0">>
        /\ (calc.duration = Seconds(100) /\ calc.percentage = 3) =>
               /\ calc.seekTime = Seconds(3)
               /\ calc.seekTimeStr = <<"0", "0", ":", "0", "0", ":", "0", "3", ".", "0", "0", "0">>

C13_Witness ==
    /\ calc.op = "time" /\ calc.pc = "done"
    /\ calc.duration = Seconds(3725) + 5000 /\ calc.percentage = 100
    /\ calc.seekTimeStr = <<"0", "1", ":", "0", "2", ":", "0", "5", ".", "5", "0", "0">>

\* C20: for every non-negative seek time formatTime returns a well-formed
\* HH:MM:SS.mmm string whose minutes field is in 00..59, whose seconds field
\* is below 60.000, and whose value is the input rounded to the millisecond.
C20_FormatTimeWellFormed ==
    calc.op = "time" /\ calc.pc = "done" =>
        LET str == calc.seekTimeStr
            digit(i) == DigitValue(str[i])
            hours == 10 * digit(1) + digit(2)
            minutes == 10 * digit(4) + digit(5)
            millis == 10000 * digit(7) + 1000 * digit(8) + 100 * digit(10)
                          + 10 * digit(11) + digit(12)
        IN  /\ Len(str) = 12
            /\ str[3] = ":" /\ str[6] = ":" /\ str[9] = "."
            /\ \A i \in {1, 2, 4, 5, 7, 8, 10, 11, 12} :
                   \E n \in 1..10 : Digits[n] = str[i]
            /\ minutes <= 59
            /\ millis < 60000
            /\ 3600000 * hours + 60000 * minutes + millis = (calc.seekTime + 5) \div 10

\* C14: whenever generateVideoThumbnail performs its lookup of the source
\* object, in direct and in as-task write mode, that object is already stored.
C14_SourceStoredAtLookup ==
    [][\A u \in Uploads :
         (run[u].pc = "Start" /\ run'[u].pc # "Start") =>
             storage[run[u].filePath].kind # "none"]_vars

\* C15 as stated: MakeDir comes before the thumbnail write, and when MakeDir
\* or opening the staged file fails the run goes to Done with no storage
\* write attempted and storage unchanged.
C15_Original ==
    [][\A u \in Uploads :
         /\ (run'[u].nPut # run[u].nPut) =>
                /\ run[u].pc = "Put"
                /\ run[u].nMkdir = 1
                /\ storage[TargetThumbDir(run[u].filePath)].kind = "dir"
         /\ (run[u].pc = "Publishing" /\ run'[u].pc = "Put") =>
                storage'[TargetThumbDir(run[u].filePath)].kind = "dir"
         /\ (run[u].pc = "Publishing" /\ run'[u].pc # "Put" /\ run'[u] # run[u]) =>
                /\ run'[u].pc = "Done"
                /\ run'[u].outcome \in {"mkdir_failed", "open_failed"}
                /\ run'[u].nPut = 0
                /\ storage' = storage]_vars

\* C15: MakeDir comes before the thumbnail write, and when MakeDir or opening
\* the staged file fails the run goes to Done with no storage write attempted;
\* storage is then unchanged except that, when MakeDir succeeded and the open
\* failed, the thumbnail directory MakeDir ensured exists.
C15_NoWriteAfterPublishingFailure ==
    [][\A u \in Uploads :
         /\ (run'[u].nPut # run[u].nPut) =>
                /\ run[u].pc = "Put"
                /\ run[u].nMkdir = 1
                /\ storage[TargetThumbDir(run[u].filePath)].kind = "dir"
         /\ (run[u].pc = "Publishing" /\ run'[u].pc = "Put") =>
                storage'[TargetThumbDir(run[u].filePath)].kind = "dir"
         /\ (run[u].pc = "Publishing" /\ run'[u].pc # "Put" /\ run'[u] # run[u]) =>
                /\ run'[u].pc = "Done"
                /\ run'[u].outcome \in {"mkdir_failed", "open_failed"}
                /\ run'[u].nPut = 0
                /\ \A p \in StoragePaths :
                       p # TargetThumbDir(run[u].filePath) => storage'[p] = storage[p]
                /\ run'[u].outcome = "mkdir_failed" => storage' = storage
                /\ run'[u].outcome = "open_failed" =>
                       storage'[TargetThumbDir(run[u].filePath)] = DirObj]_vars

C15_Witness ==
    \E u \in Uploads :
        /\ run[u].pc = "Done" /\ run[u].outcome = "open_failed"
        /\ run[u].nMkdir = 1 /\ run[u].nPut = 0
        /\ storage[TargetThumbDir(run[u].filePath)] = DirObj
        /\ storage[DerivedPath(u)] = NoObj

\* C16: within one run nothing is retried.  The cover extraction runs at most
\* once; the duration probe and the percentage extraction run at most once each
\* and only after the cover extraction failed; the percentage extraction does
\* not run when the probe failed; the thumbnail write is attempted at most once
\* and never after both attempts failed.
C16_NothingRetried ==
    \A u \in Uploads :
        LET r == run[u]
            bothFailed == r.coverErr /\ (r.probeErr \/ r.pctErr)
        IN  /\ r.nCover <= 1 /\ r.nProbe <= 1 /\ r.nPct <= 1 /\ r.nPut <= 1
            /\ r.nProbe > 0 => (r.nCover = 1 /\ r.coverErr)
            /\ r.nPct > 0 => (r.nProbe = 1 /\ r.coverErr /\ ~r.probeErr)
            /\ r.probeErr => r.nPct = 0
            /\ r.nPut > 0 => ~bothFailed
            /\ bothFailed => (r.pc = "Done" /\ r.outcome = "extraction_failed")

C16_Witness ==
    \E u \in Uploads, v \in Uploads :
        /\ run[u].pc = "Done" /\ run[u].outcome = "published"
        /\ run[u].coverErr /\ ~run[u].probeErr /\ ~run[u].pctErr
        /\ run[u].nCover = 1 /\ run[u].nProbe = 1 /\ run[u].nPct = 1 /\ run[u].nPut = 1
        /\ run[v].pc = "Done" /\ run[v].coverErr /\ run[v].probeErr
        /\ run[v].nProbe = 1 /\ run[v].nPct = 0 /\ run[v].nPut = 0

\* C17: the upload handler launches a derivation run only when the storage
\* write call returned without error and the MIME type is a video type; a
\* failed upload or a non-video upload launches none, and each upload launches
\* at most one.
C17_LaunchOnlyAfterVideoWrite ==
    \A u \in Uploads :
        /\ req[u].launched <= 1
        /\ Launched(u) <=> req[u].launched = 1
        /\ req[u].launched = 1 =>
               /\ req[u].writes = 1 /\ ~req[u].putErr
               /\ req[u].mimetype[1] = "video"
               /\ req[u].resp = 200
        /\ (req[u].pc = "done" /\ req[u].resp # 200) => req[u].launched = 0
        /\ (req[u].pc = "done" /\ req[u].mimetype[1] # "video") => req[u].launched = 0

C17_Witness ==
    \E u \in Uploads, v \in Uploads :
        /\ req[u].handler = "FsStream" /\ req[u].pc = "done" /\ req[u].resp = 200
        /\ req[u].mimetype[1] # "video" /\ req[u].launched = 0 /\ ~Launched(u)
        /\ req[v].handler = "FsStream" /\ req[v].pc = "done" /\ req[v].resp = 200
        /\ req[v].mimetype[1] = "video" /\ req[v].launched = 1 /\ Launched(v)

\* C18: with overwrite disabled an upload never replaces an object that exists
\* at the destination at the moment of its write; of two concurrent
\* overwrite-disabled uploads to one absent destination at most one writes.
C18_NoReplaceWithoutOverwrite ==
    [][\A u \in Uploads :
         ( /\ ~req'[u].overwrite
           /\ storage'[req'[u].path] = FileObj(u)
           /\ storage[req'[u].path] # FileObj(u) )
         => storage[req'[u].path].kind = "none"]_vars

\* The name up to, and without, its final dot; the whole name when it has none.
Stem(name) ==
    IF \E i \in 1..Len(name) : name[i] = Dot
    THEN SubSeq(name, 1, (CHOOSE i \in 1..Len(name) :
                             name[i] = Dot /\ \A j \in (i + 1)..Len(name) : name[j] # Dot) - 1)
    ELSE name

ParentDir(path) == SubSeq(path, 1, Len(path) - 1)

FileName(path) == path[Len(path)]

\* C19 as stated: two distinct source paths of one directory never share a
\* thumbnail path, and the existence check of one is never satisfied by the
\* thumbnail published for the other.
C19_Original ==
    (calc.op = "path" /\ calc.pc = "done" /\ calc.a # calc.b
        /\ ParentDir(calc.a) = ParentDir(calc.b)) =>
        (calc.thumbA # calc.thumbB /\ ~calc.skipped)

\* C19: two distinct source paths share a thumbnail path exactly when they are
\* in one directory and their names are equal up to the final extension; the
\* existence check of the second is satisfied by the thumbnail published for
\* the first exactly in that case.
C19_SharedExactlyOnEqualStem ==
    (calc.op = "path" /\ calc.pc = "done" /\ calc.a # calc.b) =>
        LET sameStem == /\ ParentDir(calc.a) = ParentDir(calc.b)
                        /\ Stem(FileName(calc.a)) = Stem(FileName(calc.b))
        IN  /\ (calc.thumbA = calc.thumbB) <=> sameStem
            /\ calc.skipped <=> sameStem
            /\ FileName(calc.thumbA) = Stem(FileName(calc.a)) \o <<Dot, "webp">>

C19_Witness ==
    /\ calc.op = "path" /\ calc.pc = "done"
    /\ FileName(calc.a) = <<"a", Dot, "mp4">>
    /\ FileName(calc.b) = <<"a", Dot, "mkv">>
    /\ ParentDir(calc.a) = ParentDir(calc.b)
    /\ calc.thumbA = calc.thumbB /\ calc.skipped

====
